---- MODULE Spec2Model ----
(***************************************************************************)
(* Model of the AVL tree of Grafo.py (classes Node and AVLTree).           *)
(*                                                                         *)
(* A tree is a value: Nil for Python's None, otherwise a record with the   *)
(* four fields of Node.  Every node is owned by exactly one parent, so the *)
(* in-place updates of the code are record updates on the path that        *)
(* _insert rebuilds through its return values.  The height field is the    *)
(* cached one the code reads; it is never recomputed by the model except   *)
(* where the code assigns it.                                              *)
(***************************************************************************)
EXTENDS Integers, Sequences, FiniteSets

\* Number of distinct keys the caller may insert.
MaxKeys == 8

\* Number of inserts up to which the sequence of arguments is remembered.
HistLen == 3

\* The keys offered to insert(): 10, 20, ..., 10 * MaxKeys.
KeySet == {10 * i : i \in 1..MaxKeys}

VARIABLES
    root,       \* AVLTree.root
    op,         \* the last public operation: "init", "insert", "generate_edges"
    key,        \* argument of the last insert (0 before the first one)
    trace,      \* the rotation checks run by the last insert, innermost first
    err,        \* TRUE once an insert has dereferenced None
    edges,      \* the list returned by the last generate_edges
    inserted,   \* history: the set of all keys passed to insert so far
    hist,       \* history: the arguments of all inserts so far, in order, while
                \* there are at most HistLen of them; <<>> afterwards
    more        \* history: TRUE once more than HistLen inserts were made

vars == <<root, op, key, trace, err, edges, inserted, hist, more>>

----------------------------------------------------------------------------
\* Node and the helpers of AVLTree

\* Python's None, the absent child.
Nil == [absent |-> TRUE]

\* Node.__init__: a leaf of height 1.
Node(value) == [value |-> value, left |-> Nil, right |-> Nil, height |-> 1]

Max(a, b) == IF a > b THEN a ELSE b

\* AVLTree._get_height: the cached height, 0 for None.
_get_height(node) == IF node = Nil THEN 0 ELSE node.height

\* Mutant: the balance factor is taken with the opposite sign.
get_balance_Flipped(node) ==
    IF node = Nil THEN 0
    ELSE _get_height(node.right) - _get_height(node.left)

\* AVLTree._get_balance: cached left height minus cached right height.
_get_balance(node) ==
    IF node = Nil THEN 0
    ELSE _get_height(node.left) - _get_height(node.right)

\* The height assignment `x.height = 1 + max(h(x.left), h(x.right))`.
UpdateHeight(x) ==
    [x EXCEPT !.height = 1 + Max(_get_height(x.left), _get_height(x.right))]

\* A result that stands for an AttributeError raised on None.
Raised == [raised |-> TRUE]

\* Mutant: T2 is read from the wrong side of y, so y's left subtree is lost
\* and its right subtree appears twice.
rotate_left_WrongT2(z) ==
    IF z = Nil \/ z.right = Nil THEN Raised
    ELSE LET y  == z.right
             T2 == y.right
             z1 == UpdateHeight([z EXCEPT !.right = T2])
         IN  UpdateHeight([y EXCEPT !.left = z1])

\* Mutant: the height of z is not recomputed after it has become a child.
rotate_left_StaleZ(z) ==
    IF z = Nil \/ z.right = Nil THEN Raised
    ELSE LET y  == z.right
             T2 == y.left
             z1 == [z EXCEPT !.right = T2]
         IN  UpdateHeight([y EXCEPT !.left = z1])

\* AVLTree._rotate_left: y = z.right becomes the local root, z its left
\* child, y's old left subtree T2 the right child of z; z.height is
\* recomputed before y.height.
_rotate_left(z) ==
    IF z = Nil \/ z.right = Nil THEN Raised
    ELSE LET y  == z.right
             T2 == y.left
             z1 == UpdateHeight([z EXCEPT !.right = T2])
         IN  UpdateHeight([y EXCEPT !.left = z1])

\* Mutant: the height of z is not recomputed after it has become a child.
rotate_right_StaleZ(z) ==
    IF z = Nil \/ z.left = Nil THEN Raised
    ELSE LET y  == z.left
             T3 == y.right
             z1 == [z EXCEPT !.left = T3]
         IN  UpdateHeight([y EXCEPT !.right = z1])

\* Mutant: T3 is read from the wrong side of y.
rotate_right_WrongT3(z) ==
    IF z = Nil \/ z.left = Nil THEN Raised
    ELSE LET y  == z.left
             T3 == y.left
             z1 == UpdateHeight([z EXCEPT !.left = T3])
         IN  UpdateHeight([y EXCEPT !.right = z1])

\* AVLTree._rotate_right: the mirror image of _rotate_left.
_rotate_right(z) ==
    IF z = Nil \/ z.left = Nil THEN Raised
    ELSE LET y  == z.left
             T3 == y.right
             z1 == UpdateHeight([z EXCEPT !.left = T3])
         IN  UpdateHeight([y EXCEPT !.right = z1])

----------------------------------------------------------------------------
\* AVLTree._insert

\* What one level of _insert hands back: the subtree root it returns, the
\* rotation checks run so far (innermost first), and whether it raised.
Ret(node, checks, raised) == [node |-> node, checks |-> checks, raised |-> raised]

\* Mutant: a key equal to the node's key is sent to the right subtree.
Compare_NoEqual(value, nodeValue) ==
    IF value < nodeValue THEN "left" ELSE "right"

\* The three-way comparison of lines 31-37.
Compare(value, nodeValue) ==
    IF value < nodeValue THEN "left"
    ELSE IF value > nodeValue THEN "right"
    ELSE "equal"

\* The four rotation conditions of lines 48, 52, 56 and 61 that hold at
\* node for the inserted value.  `and` short-circuits, so a child is read
\* only when the balance test has passed.
CasesThatApply(node, value, balance) ==
    {c \in 1..4 :
        \/ c = 1 /\ balance > 1  /\ node.left # Nil  /\ value < node.left.value
        \/ c = 2 /\ balance < -1 /\ node.right # Nil /\ value > node.right.value
        \/ c = 3 /\ balance > 1  /\ node.left # Nil  /\ value > node.left.value
        \/ c = 4 /\ balance < -1 /\ node.right # Nil /\ value < node.right.value}

\* TRUE if evaluating the conditions reads .value of None.
ConditionRaises(node, balance) ==
    \/ balance > 1  /\ node.left = Nil
    \/ balance < -1 /\ node.right = Nil

\* The record of one rotation check: the node it ran at, the balance factor
\* it computed, the conditions that held, and the case the code took
\* (0: none, the node is returned as it is).
Check(node, balance, cases, taken) ==
    [at |-> node.value, balance |-> balance, cases |-> cases, taken |-> taken]

\* Mutant: case 4 (right rotation on the right child, then left rotation)
\* is missing.
Rebalance_NoCase4(node, value, checks) ==
    LET balance == _get_balance(node)
        cases   == CasesThatApply(node, value, balance)
        done(n, c) == IF n = Raised THEN Ret(node, checks, TRUE)
                      ELSE Ret(n, Append(checks, Check(node, balance, cases, c)), FALSE)
    IN  IF ConditionRaises(node, balance) THEN Ret(node, checks, TRUE)
        ELSE IF 1 \in cases THEN done(_rotate_right(node), 1)
        ELSE IF 2 \in cases THEN done(_rotate_left(node), 2)
        ELSE IF 3 \in cases THEN
            LET l == _rotate_left(node.left)
            IN  IF l = Raised THEN Ret(node, checks, TRUE)
                ELSE done(_rotate_right([node EXCEPT !.left = l]), 3)
        ELSE done(node, 0)

\* Mutant: case 3 rotates the node to the right without first rotating its
\* left child to the left.
Rebalance_SingleCase3(node, value, checks) ==
    LET balance == _get_balance(node)
        cases   == CasesThatApply(node, value, balance)
        done(n, c) == IF n = Raised THEN Ret(node, checks, TRUE)
                      ELSE Ret(n, Append(checks, Check(node, balance, cases, c)), FALSE)
    IN  IF ConditionRaises(node, balance) THEN Ret(node, checks, TRUE)
        ELSE IF 1 \in cases THEN done(_rotate_right(node), 1)
        ELSE IF 2 \in cases THEN done(_rotate_left(node), 2)
        ELSE IF 3 \in cases THEN done(_rotate_right(node), 3)
        ELSE IF 4 \in cases THEN
            LET r == _rotate_right(node.right)
            IN  IF r = Raised THEN Ret(node, checks, TRUE)
                ELSE done(_rotate_left([node EXCEPT !.right = r]), 4)
        ELSE done(node, 0)

\* Mutant: no rotation is ever made.
Rebalance_Never(node, value, checks) ==
    LET balance == _get_balance(node)
        cases   == CasesThatApply(node, value, balance)
    IN  Ret(node, Append(checks, Check(node, balance, cases, 0)), FALSE)

\* Lines 42-65: the balance factor of the node whose height was just
\* recomputed, then the four cases in the order of the code.
Rebalance(node, value, checks) ==
    LET balance == _get_balance(node)
        cases   == CasesThatApply(node, value, balance)
        done(n, c) == IF n = Raised THEN Ret(node, checks, TRUE)
                      ELSE Ret(n, Append(checks, Check(node, balance, cases, c)), FALSE)
    IN  IF ConditionRaises(node, balance) THEN Ret(node, checks, TRUE)
        ELSE IF 1 \in cases THEN done(_rotate_right(node), 1)
        ELSE IF 2 \in cases THEN done(_rotate_left(node), 2)
        ELSE IF 3 \in cases THEN
            LET l == _rotate_left(node.left)
            IN  IF l = Raised THEN Ret(node, checks, TRUE)
                ELSE done(_rotate_right([node EXCEPT !.left = l]), 3)
        ELSE IF 4 \in cases THEN
            LET r == _rotate_right(node.right)
            IN  IF r = Raised THEN Ret(node, checks, TRUE)
                ELSE done(_rotate_left([node EXCEPT !.right = r]), 4)
        ELSE done(node, 0)

\* AVLTree._insert, lines 25-65.
RECURSIVE _insert(_, _)
_insert(node, value) ==
    IF node = Nil THEN Ret(Node(value), <<>>, FALSE)
    ELSE
        LET dir == Compare(value, node.value)
        IN  IF dir = "equal" THEN Ret(node, <<>>, FALSE)
            ELSE
                LET sub == IF dir = "left" THEN _insert(node.left, value)
                           ELSE _insert(node.right, value)
                    n1  == IF dir = "left" THEN [node EXCEPT !.left = sub.node]
                           ELSE [node EXCEPT !.right = sub.node]
                IN  IF sub.raised THEN Ret(n1, sub.checks, TRUE)
                    ELSE Rebalance(UpdateHeight(n1), value, sub.checks)

----------------------------------------------------------------------------
\* AVLTree.generate_edges

RECURSIVE _generate_edges(_)

\* Mutant: the edge to the right child is appended before the left subtree
\* is visited.
generate_edges_RightEarly(node) ==
    IF node = Nil THEN <<>>
    ELSE (IF node.left # Nil THEN <<(<<node.value, node.left.value>>)>> ELSE <<>>)
         \o (IF node.right # Nil THEN <<(<<node.value, node.right.value>>)>> ELSE <<>>)
         \o (IF node.left # Nil THEN _generate_edges(node.left) ELSE <<>>)
         \o (IF node.right # Nil THEN _generate_edges(node.right) ELSE <<>>)

\* AVLTree._generate_edges, lines 117-125: the pairs appended to `edges`
\* while visiting node.
_generate_edges(node) ==
    IF node = Nil THEN <<>>
    ELSE (IF node.left # Nil
          THEN <<(<<node.value, node.left.value>>)>> \o _generate_edges(node.left)
          ELSE <<>>)
         \o
         (IF node.right # Nil
          THEN <<(<<node.value, node.right.value>>)>> \o _generate_edges(node.right)
          ELSE <<>>)

----------------------------------------------------------------------------
\* The state machine

\* AVLTree.__init__: the empty tree.
Init ==
    /\ root = Nil
    /\ op = "init"
    /\ key = 0
    /\ trace = <<>>
    /\ err = FALSE
    /\ edges = <<>>
    /\ inserted = {}
    /\ hist = <<>>
    /\ more = FALSE

\* AVLTree.insert(value): self.root is assigned only if _insert returns.
\* A raise sets err, after which no operation is modelled: the nodes that
\* _insert had already updated in place are not reflected in root then.
Insert(value) ==
    LET r == _insert(root, value)
    IN  /\ ~err
        /\ root' = IF r.raised THEN root ELSE r.node
        /\ err' = r.raised
        /\ op' = "insert"
        /\ key' = value
        /\ trace' = r.checks
        /\ edges' = <<>>
        /\ inserted' = inserted \cup {value}
        /\ hist' = IF ~more /\ Len(hist) < HistLen THEN Append(hist, value) ELSE <<>>
        /\ more' = (more \/ Len(hist) >= HistLen)

\* AVLTree.generate_edges(): a read of the tree.
GenerateEdges ==
    /\ ~err
    /\ edges' = _generate_edges(root)
    /\ op' = "generate_edges"
    /\ UNCHANGED <<root, key, trace, err, inserted, hist, more>>

Next ==
    \/ \E value \in KeySet : Insert(value)
    \/ GenerateEdges

Spec == Init /\ [][Next]_vars

----------------------------------------------------------------------------
\* Definitions the properties are stated with.  None of them reads the
\* cached height of a node except where a property is about that field.

\* The height of a tree by its recursive definition.
RECURSIVE TrueHeight(_)
TrueHeight(t) ==
    IF t = Nil THEN 0 ELSE 1 + Max(TrueHeight(t.left), TrueHeight(t.right))

\* The nodes of a tree, each given as the subtree it is the root of.
RECURSIVE Nodes(_)
Nodes(t) ==
    IF t = Nil THEN {} ELSE {t} \cup Nodes(t.left) \cup Nodes(t.right)

\* The number of nodes of a tree.
RECURSIVE Size(_)
Size(t) ==
    IF t = Nil THEN 0 ELSE 1 + Size(t.left) + Size(t.right)

\* The set of keys stored in a tree.
RECURSIVE KeysOf(_)
KeysOf(t) ==
    IF t = Nil THEN {} ELSE {t.value} \cup KeysOf(t.left) \cup KeysOf(t.right)

\* The keys of a tree in in-order and in pre-order.
RECURSIVE InOrder(_)
InOrder(t) ==
    IF t = Nil THEN <<>> ELSE InOrder(t.left) \o <<t.value>> \o InOrder(t.right)

RECURSIVE PreOrder(_)
PreOrder(t) ==
    IF t = Nil THEN <<>> ELSE <<t.value>> \o PreOrder(t.left) \o PreOrder(t.right)

\* The elements of a finite set of integers in increasing order.
RECURSIVE Sorted(_)
Sorted(S) ==
    IF S = {} THEN <<>>
    ELSE LET m == CHOOSE x \in S : \A y \in S : x <= y
         IN  <<m>> \o Sorted(S \ {m})

\* TRUE if c is the left or the right child of the node with key p.
IsChildOf(t, p, c) ==
    \E n \in Nodes(t) :
        /\ n.value = p
        /\ \/ n.left # Nil /\ n.left.value = c
           \/ n.right # Nil /\ n.right.value = c

\* The indices of the rotation checks that found a balance factor outside
\* [-1, 1], and of those that rotated.
Unbalanced(tr) == {i \in DOMAIN tr : tr[i].balance \notin -1..1}
Rotated(tr) == {i \in DOMAIN tr : tr[i].taken # 0}

\* Natural numbers of any size, as sequences of digits in base 10000 with
\* the least significant digit first: 32-bit arithmetic cannot hold 2^(25h).

RECURSIVE TimesFrom(_, _, _, _)
TimesFrom(d, k, i, carry) ==
    IF i > Len(d) THEN (IF carry = 0 THEN <<>> ELSE <<carry>>)
    ELSE LET v == d[i] * k + carry
         IN  <<v % 10000>> \o TimesFrom(d, k, i + 1, v \div 10000)

\* d * k for a small factor k.
Times(d, k) == TimesFrom(d, k, 1, 0)

\* k ^ e.
RECURSIVE Power(_, _)
Power(k, e) == IF e = 0 THEN <<1>> ELSE Times(Power(k, e - 1), k)

\* a <= b.
BigLeq(a, b) ==
    \/ Len(a) < Len(b)
    \/ /\ Len(a) = Len(b)
       /\ \/ a = b
          \/ \E i \in DOMAIN a :
                /\ a[i] < b[i]
                /\ \A j \in (i + 1)..Len(a) : a[j] = b[j]

\* h <= 1.44 * log2(n + 2), that is 2^(25 h) <= (n + 2)^36, computed as
\* (2^5)^(5 h) <= ((n + 2)^3)^12 to keep the recursion of Power short.
WithinHeightBound(h, n) ==
    BigLeq(Power(32, 5 * h), Power((n + 2) * (n + 2) * (n + 2), 12))

----------------------------------------------------------------------------
\* The properties

\* C1: AVL balance.  After every insert, at every node of the tree the true
\* heights of the left and the right subtree differ by at most 1.
C1_AVLBalance ==
    \A n \in Nodes(root) :
        TrueHeight(n.left) - TrueHeight(n.right) \in -1..1

\* An insert has just rotated in a tree of at least six nodes.
C1_Witness ==
    op = "insert" /\ Rotated(trace) # {} /\ Size(root) >= 6

\* C2: BST ordering and uniqueness.  After every insert, at every node all
\* keys of the left subtree are smaller than the node's key and all keys of
\* the right subtree are greater, and no key is stored in two nodes.
C2_BSTOrdering ==
    /\ \A n \in Nodes(root) :
          /\ \A k \in KeysOf(n.left) : k < n.value
          /\ \A k \in KeysOf(n.right) : k > n.value
    /\ Size(root) = Cardinality(KeysOf(root))

\* An insert has just made a double rotation below the root of the tree.
C2_Witness ==
    /\ op = "insert"
    /\ \E i \in DOMAIN trace : trace[i].taken \in {3, 4} /\ i < Len(trace)

\* C3: height correctness.  After every insert, the height field of every
\* node is 1 + the larger of the true heights of its two subtrees.
C3_HeightCorrect ==
    \A n \in Nodes(root) :
        n.height = 1 + Max(TrueHeight(n.left), TrueHeight(n.right))

\* An insert has just rotated below the root, in a tree of height 4.
C3_Witness ==
    /\ op = "insert"
    /\ root # Nil /\ root.height = 4
    /\ \E i \in DOMAIN trace : trace[i].taken # 0 /\ i < Len(trace)

\* C4: membership.  The in-order key sequence of the tree is the increasing
\* sequence of the distinct keys inserted so far, one node per key.
C4_Membership ==
    /\ InOrder(root) = Sorted(inserted)
    /\ Size(root) = Cardinality(inserted)

\* Seven distinct keys have been inserted, the last insert with a rotation.
C4_Witness ==
    op = "insert" /\ Cardinality(inserted) >= 7 /\ Rotated(trace) # {}

\* C5: idempotence.  An insert of a key that is in the tree leaves the tree
\* as it is: same shape, same keys, same height fields.
C5_Idempotent ==
    [][(op' = "insert" /\ key' \in KeysOf(root)) => root' = root]_vars

\* 10 was inserted twice in a row below 20.
C5_Witness ==
    hist = <<20, 10, 10>> /\ op = "insert" /\ Size(root) = 2

\* C6: edge enumeration.  generate_edges leaves the tree as it is and
\* returns one (parent key, child key) pair per node other than the root,
\* n - 1 pairs for n >= 1 nodes and none for the empty tree; the children
\* appear in the order of the pre-order traversal of the tree.
C6_Edges ==
    [][op' = "generate_edges" =>
          /\ root' = root
          /\ Len(edges') = (IF Size(root) = 0 THEN 0 ELSE Size(root) - 1)
          /\ root # Nil => [i \in DOMAIN edges' |-> edges'[i][2]] = Tail(PreOrder(root))
          /\ \A i \in DOMAIN edges' : IsChildOf(root, edges'[i][1], edges'[i][2])
      ]_vars

\* generate_edges has returned the six edges of a tree whose root has two
\* children, each with a child of its own.
C6_Witness ==
    /\ op = "generate_edges" /\ Len(edges) >= 6
    /\ root.left # Nil /\ root.left.height >= 2
    /\ root.right # Nil /\ root.right.height >= 2

\* C7: height bound.  With n >= 1 distinct keys inserted, the height field
\* of the root is at most 1.44 * log2(n + 2).
C7_HeightBound ==
    root # Nil => WithinHeightBound(root.height, Cardinality(inserted))

\* Seven distinct keys in a tree of height 4, the most the bound allows.
C7_Witness ==
    /\ root # Nil /\ root.height = 4 /\ Cardinality(inserted) = 7
    /\ ~WithinHeightBound(5, 7)

\* The tree 20 with the children 10 and 30.
Tree_10_20_30 ==
    [value |-> 20, left |-> Node(10), right |-> Node(30), height |-> 2]

\* C8, as stated: after the inserts 30, 10, 20 the tree is 20 with the
\* children 10 and 30, and the only rotation of the last insert was case 4
\* at 30, the right-left double rotation (right rotation on the right child,
\* then left rotation on the node).
C8_AsStated ==
    (hist = <<30, 10, 20>> /\ ~more) =>
        /\ root = Tree_10_20_30
        /\ \E i \in DOMAIN trace :
              /\ Rotated(trace) = {i}
              /\ trace[i].at = 30
              /\ trace[i].taken = 4

\* C8, amended: after the inserts 30, 10, 20 the tree is 20 with the
\* children 10 and 30, and the only rotation of the last insert was case 3
\* at 30, the left-right double rotation (left rotation on the left child
\* 10, then right rotation on 30).
C8_LeftRight ==
    (hist = <<30, 10, 20>> /\ ~more) =>
        /\ root = Tree_10_20_30
        /\ \E i \in DOMAIN trace :
              /\ Rotated(trace) = {i}
              /\ trace[i].at = 30
              /\ trace[i].balance = 2
              /\ trace[i].taken = 3

\* 30, 10, 20 have been inserted, in this order, into the empty tree.
C8_Witness ==
    hist = <<30, 10, 20>> /\ ~more /\ op = "insert" /\ key = 20

\* C9: totality and case coverage.  No insert reads a field of an absent
\* node; a rotation check that finds a balance factor outside [-1, 1] finds
\* +2 or -2, exactly one of the four conditions holds, and that case is
\* taken; a check returns its node unrotated only with a balance factor in
\* [-1, 1].
C9_Total ==
    /\ ~err
    /\ \A i \in DOMAIN trace :
          /\ trace[i].balance \in -2..2
          /\ trace[i].balance \notin -1..1 =>
                /\ Cardinality(trace[i].cases) = 1
                /\ trace[i].taken \in trace[i].cases
          /\ trace[i].balance \in -1..1 =>
                /\ trace[i].cases = {}
                /\ trace[i].taken = 0

\* An insert has just found a balance factor of -2 below the root and made
\* the double rotation of case 4 there.
C9_Witness ==
    /\ op = "insert"
    /\ \E i \in DOMAIN trace :
          trace[i].balance = -2 /\ trace[i].taken = 4 /\ i < Len(trace)

\* C10: at most one rebalancing per insert.  In one insert at most one
\* rotation check finds a balance factor outside [-1, 1] and at most one
\* rotates; an insert of a key that is in the tree rotates nowhere.
C10_OneRotation ==
    [][op' = "insert" =>
          /\ Cardinality(Unbalanced(trace')) <= 1
          /\ Cardinality(Rotated(trace')) <= 1
          /\ key' \in KeysOf(root) => Rotated(trace') = {}
      ]_vars

\* An insert that ran three rotation checks has just rotated at the second
\* of them, and the root was checked after it.
C10_Witness ==
    /\ op = "insert"
    /\ Len(trace) = 3
    /\ trace[2].taken # 0
    /\ Unbalanced(trace) = {2}

====
